---------------------------- MODULE Spec2Model ----------------------------
(***************************************************************************)
(* A model of src/ingest.py (rss-to-notion): feed entries are deduplicated *)
(* against the remote store and the local state file, their HTML is        *)
(* converted to blocks, and the blocks are written with a paginated,       *)
(* retrying write protocol.                                                *)
(*                                                                         *)
(* Python strings are sequences of tokens (<<"g1">>, <<"Open on the web: ",*)
(* "u1">>): concatenation is \o and the empty string is << >>.  None is    *)
(* the one-token sequence None, which no string of the program equals.     *)
(***************************************************************************)
EXTENDS Integers, Sequences, FiniteSets, TLC

(***************************************************************************)
(* Python values                                                           *)
(***************************************************************************)
None == <<"<None>">>

\* Python truthiness of an Optional[str]: None and "" are falsy.
Truthy(s) == s /= None /\ s /= << >>

\* a or b
Or(a, b) == IF Truthy(a) THEN a ELSE b

\* str(x) of an Optional[str]: str(None) is the four-letter string "None".
Str(x) == IF x = None THEN <<"None">> ELSE x

Min(a, b) == IF a <= b THEN a ELSE b

\* s[:n] and s[n:] of a list
Take(s, n) == SubSeq(s, 1, Min(n, Len(s)))
Drop(s, n) == SubSeq(s, Min(n, Len(s)) + 1, Len(s))

RECURSIVE Concat(_)
Concat(ss) == IF ss = << >> THEN << >> ELSE Head(ss) \o Concat(Tail(ss))

(***************************************************************************)
(* A raised exception and a returned value                                 *)
(***************************************************************************)
Ret(v) == [ok |-> TRUE, v |-> v]
Raise == [ok |-> FALSE, v |-> << >>]


(***************************************************************************)
(* URLs.  A URL string is a token sequence: an optional scheme token       *)
(* ("http:"), an optional network-location token ("//h"), then path and    *)
(* fragment tokens; " " is a run of white space.                           *)
(***************************************************************************)
Schemes == {"http:", "https:", "ftp:", "mailto:", "javascript:", "data:",
            "about:", "JavaScript:"}
Netlocs == {"//h", "//g"}
Fragments == {"#f"}
\* urllib.parse.uses_relative and uses_netloc, as far as Schemes goes
UsesRelative == {"", "http:", "https:", "ftp:"}
UsesNetloc == {"", "http:", "https:", "ftp:"}

\* urlparse lower-cases the scheme
Lower(t) == IF t = "JavaScript:" THEN "javascript:" ELSE t

RECURSIVE LStrip(_)
LStrip(s) == IF s /= << >> /\ Head(s) = " " THEN LStrip(Tail(s)) ELSE s

RECURSIVE RStrip(_)
RStrip(s) ==
    IF s /= << >> /\ s[Len(s)] = " " THEN RStrip(SubSeq(s, 1, Len(s) - 1)) ELSE s

\* str.strip()
Strip(s) == RStrip(LStrip(s))

\* urllib.parse.urlparse
urlparse(s) ==
    LET hasScheme == s /= << >> /\ Head(s) \in Schemes
        after == IF hasScheme THEN Tail(s) ELSE s
        hasNetloc == after /= << >> /\ Head(after) \in Netlocs
    IN  [scheme |-> IF hasScheme THEN Lower(Head(s)) ELSE "",
         netloc |-> IF hasNetloc THEN Head(after) ELSE "",
         rest |-> IF hasNetloc THEN Tail(after) ELSE after]

urlunparse(scheme, netloc, rest) ==
    (IF scheme /= "" THEN <<scheme>> ELSE << >>)
        \o (IF netloc /= "" THEN <<netloc>> ELSE << >>) \o rest

\* urllib.parse.urljoin(base, url), for a truthy base
urljoin(base, url) ==
    IF url = << >> THEN base
    ELSE LET b == urlparse(base)
             u == urlparse(url)
             scheme == IF u.scheme = "" THEN b.scheme ELSE u.scheme
         IN  IF scheme /= b.scheme \/ scheme \notin UsesRelative THEN url
             ELSE IF scheme \in UsesNetloc /\ u.netloc /= ""
                  THEN urlunparse(scheme, u.netloc, u.rest)
             ELSE urlunparse(scheme, b.netloc,
                             IF u.rest = << >> THEN b.rest ELSE u.rest)

\* href.startswith(("javascript:", "data:", "about:", "#")): case-sensitive
StartsWithDropped(s) ==
    s /= << >> /\ Head(s) \in {"javascript:", "data:", "about:"} \cup Fragments

_normalize_url(href, base_url) ==
    IF ~Truthy(href) THEN None
    ELSE LET h == Strip(href)
         IN  IF StartsWithDropped(h) THEN None
             ELSE IF Truthy(base_url) THEN urljoin(base_url, h)
             ELSE LET p == urlparse(h)
                  IN  IF p.scheme \in {"http:", "https:"} /\ p.netloc /= ""
                      THEN h ELSE None

(***************************************************************************)
(* The parsed HTML tree (BeautifulSoup).  A node is a NavigableString      *)
(* (nt = "str", its text in s) or a Tag (nt = "tag": its name, its href    *)
(* or src attribute in attr, its children in kids).                        *)
(***************************************************************************)
StrNode(s) == [nt |-> "str", name |-> "", s |-> s, attr |-> None, kids |-> << >>]
TagNode(name, kids) ==
    [nt |-> "tag", name |-> name, s |-> << >>, attr |-> None, kids |-> kids]
AttrNode(name, attr, kids) ==
    [nt |-> "tag", name |-> name, s |-> << >>, attr |-> attr, kids |-> kids]

INLINE_TAGS ==
    [b |-> "bold", strong |-> "bold", i |-> "italic", em |-> "italic",
     code |-> "code", s |-> "strikethrough", del |-> "strikethrough",
     u |-> "underline"]

\* Tag.strings: the text nodes under a node, in document order
RECURSIVE Strings(_)
StringsOf(kids) == Concat([k \in 1..Len(kids) |-> Strings(kids[k])])
Strings(node) ==
    IF node.nt = "str" THEN <<node.s>> ELSE StringsOf(node.kids)

RECURSIVE JoinWith(_, _)
JoinWith(ss, sep) ==
    IF ss = << >> THEN << >>
    ELSE IF Len(ss) = 1 THEN Head(ss)
    ELSE Head(ss) \o sep \o JoinWith(Tail(ss), sep)

\* Tag.get_text(separator): Tag.text is get_text("")
get_text(node, sep) == JoinWith(Strings(node), sep)

(***************************************************************************)
(* Rich text                                                               *)
(***************************************************************************)
\* text_obj: ann is the set of annotation flags passed as true
text_obj(content, ann) == [content |-> content, ann |-> ann, link |-> None]

link_text_obj(content, url, ann) == [content |-> content, ann |-> ann, link |-> url]

\* The Tag branch of build_rich_text_inline up to its loop over the children:
\* new_ann, new_href (bound only for <a>) and the span emitted for the tag
\* itself.  With an inherited link the emitted span reads s, which only the
\* NavigableString branch binds: UnboundLocalError.
TagPrologue(node, ann, href) ==
    [raises |-> Truthy(href),
     out |-> <<text_obj(get_text(node, << >>), ann)>>,
     new_ann |-> IF node.name \in DOMAIN INLINE_TAGS
                 THEN ann \cup {INLINE_TAGS[node.name]} ELSE ann,
     href_bound |-> node.name = "a",
     new_href |-> IF node.name = "a" THEN _normalize_url(node.attr, None) ELSE None]

RECURSIVE build_rich_text_inline(_, _, _)
RECURSIVE RichChildren(_, _, _, _)
\* out.extend(r) for the result r of child k, then the children after it
RichExtend(kids, k, p, acc, r) ==
    IF ~r.ok THEN Raise ELSE RichChildren(kids, k + 1, p, acc \o r.v)

\* the loop over node.children from child k on; each call reads new_href,
\* which is unbound unless the tag is <a>: UnboundLocalError
RichChildren(kids, k, p, acc) ==
    IF k > Len(kids) THEN Ret(acc)
    ELSE IF ~p.href_bound THEN Raise
    ELSE RichExtend(kids, k, p, acc,
                    build_rich_text_inline(kids[k], p.new_ann, p.new_href))

\* the Tag branch after the prologue p
RichTag(node, p) ==
    IF p.raises THEN Raise ELSE RichChildren(node.kids, 1, p, p.out)

build_rich_text_inline(node, ann, href) ==
    IF node.nt = "str"
    THEN IF node.s = << >> THEN Ret(<< >>)
         ELSE IF Truthy(href) THEN Ret(<<link_text_obj(node.s, href, ann)>>)
         ELSE Ret(<<text_obj(node.s, ann)>>)
    ELSE IF node.name = "br" THEN Ret(<<text_obj(<<"\n">>, ann)>>)
    ELSE RichTag(node, TagPrologue(node, ann, href))

(***************************************************************************)
(* Blocks                                                                  *)
(***************************************************************************)
RichBlock(type, rich) == [type |-> type, rich |-> rich, url |-> None]
ImageBlock(src) == [type |-> "image", rich |-> << >>, url |-> src]

\* rich or [text_obj(...)]
OrSpans(rich, dflt) == IF rich = << >> THEN dflt ELSE rich

HeadingLevel == [h1 |-> "heading_1", h2 |-> "heading_2", h3 |-> "heading_3"]
Containers == {"div", "section", "article", "main"}
EmptySpans == <<text_obj(<< >>, {})>>

\* tag.find_all("li", recursive=False)
DirectLis(tag) ==
    SelectSeq(tag.kids, LAMBDA c : c.nt = "tag" /\ c.name = "li")

\* one block of this type whose rich text is r, the result of
\* build_rich_text_inline, or dflt when that is empty
BlockOfRich(r, type, dflt) ==
    IF ~r.ok THEN Raise ELSE Ret(<<RichBlock(type, OrSpans(r.v, dflt))>>)

RichOf(tag, type, dflt) ==
    BlockOfRich(build_rich_text_inline(tag, {}, None), type, dflt)

\* what a loop goes on with after a step gave r: acc extended by r's blocks
Extend(acc, r) == IF ~r.ok THEN Raise ELSE Ret(acc \o r.v)

\* the loop of the ul/ol branch over the direct li children lis[lo..hi],
\* run on its first half and then on its second
RECURSIVE ListItems(_, _, _, _, _)
ListRest(lis, lo, hi, item_type, l) ==
    IF ~l.ok THEN Raise ELSE ListItems(lis, lo, hi, item_type, l.v)

ListItems(lis, lo, hi, item_type, items) ==
    IF lo > hi THEN Ret(items)
    ELSE IF lo = hi THEN Extend(items, RichOf(lis[lo], item_type, EmptySpans))
    ELSE ListRest(lis, (lo + hi) \div 2 + 1, hi, item_type,
                  ListItems(lis, lo, (lo + hi) \div 2, item_type, items))

\* the rich-text block types: the tag's block type and the spans that stand
\* in for an empty rich text
RichType(tag) ==
    IF tag.name \in DOMAIN HeadingLevel THEN HeadingLevel[tag.name]
    ELSE IF tag.name = "blockquote" THEN "quote"
    ELSE "paragraph"

RichDefault(tag) ==
    IF tag.name \in DOMAIN HeadingLevel \cup {"p", "blockquote"} THEN EmptySpans
    ELSE <<text_obj(get_text(tag, << >>), {})>>

\* the image branch, for the normalized src
ImageOf(src) == IF Truthy(src) THEN Ret(<<ImageBlock(src)>>) ELSE Ret(<< >>)

\* block_from_tag returns a block, a list of blocks or None: here the list of
\* the blocks it contributes (None is the empty list), or Raise.
RECURSIVE block_from_tag(_, _)
RECURSIVE ContainerLoop(_, _, _, _)
\* one child of a container: a text node is a paragraph unless it is white
\* space, a tag gives the blocks of block_from_tag
ContainerChild(child, base_url) ==
    IF child.nt = "str"
    THEN IF Strip(child.s) /= << >>
         THEN Ret(<<RichBlock("paragraph", <<text_obj(child.s, {})>>)>>)
         ELSE Ret(<< >>)
    ELSE block_from_tag(child, base_url)

ContainerRest(kids, k, base_url, r) ==
    IF ~r.ok THEN Raise ELSE ContainerLoop(kids, k, base_url, r.v)

\* the loop of the container branch over tag.children from child k on
ContainerLoop(kids, k, base_url, blocks) ==
    IF k > Len(kids) THEN Ret(blocks)
    ELSE ContainerRest(kids, k + 1, base_url,
                       Extend(blocks, ContainerChild(kids[k], base_url)))

block_from_tag(tag, base_url) ==
    IF tag.name \in {"ul", "ol"}
    THEN ListItems(DirectLis(tag), 1, Len(DirectLis(tag)),
                   IF tag.name = "ul" THEN "bulleted_list_item"
                                      ELSE "numbered_list_item", << >>)
    ELSE IF tag.name = "pre"
    THEN Ret(<<RichBlock("code", <<text_obj(get_text(tag, <<"\n">>), {})>>)>>)
    ELSE IF tag.name = "img" /\ Truthy(tag.attr)
    THEN ImageOf(_normalize_url(tag.attr, base_url))
    ELSE IF tag.name \in Containers THEN ContainerLoop(tag.kids, 1, base_url, << >>)
    ELSE RichOf(tag, RichType(tag), RichDefault(tag))

\* One iteration of the loop of html_to_blocks over container.children, on
\* element el with the blocks collected so far, given what the element
\* contributes (r): the new blocks and whether the loop breaks.  A text node
\* continues before the length test.
HtmlStepOn(el, r, max_blocks, blocks) ==
    IF ~r.ok THEN [ok |-> FALSE, stop |-> TRUE, blocks |-> blocks]
    ELSE [ok |-> TRUE,
          stop |-> el.nt /= "str" /\ Len(blocks \o r.v) >= max_blocks,
          blocks |-> blocks \o r.v]

HtmlStep(el, base_url, max_blocks, blocks) ==
    HtmlStepOn(el, ContainerChild(el, base_url), max_blocks, blocks)

\* the loop over the elements doc[lo..hi], run on its first half and then,
\* unless that raised or broke out, on its second
RECURSIVE HtmlLoop(_, _, _, _, _, _)
HtmlRest(doc, lo, hi, base_url, max_blocks, l) ==
    IF ~l.ok \/ l.stop THEN l
    ELSE HtmlLoop(doc, lo, hi, base_url, max_blocks, l.blocks)

HtmlLoop(doc, lo, hi, base_url, max_blocks, blocks) ==
    IF lo > hi THEN [ok |-> TRUE, stop |-> FALSE, blocks |-> blocks]
    ELSE IF lo = hi THEN HtmlStep(doc[lo], base_url, max_blocks, blocks)
    ELSE HtmlRest(doc, (lo + hi) \div 2 + 1, hi, base_url, max_blocks,
                  HtmlLoop(doc, lo, (lo + hi) \div 2, base_url, max_blocks, blocks))

\* the result of the loop as html_to_blocks returns it
HtmlResult(r) == IF r.ok THEN Ret(r.blocks) ELSE Raise

\* html is the parsed document: the children of its body, in order
html_to_blocks(html, base_url, max_blocks) ==
    HtmlResult(HtmlLoop(html, 1, Len(html), base_url, max_blocks, << >>))


(***************************************************************************)
(* Bounds of the model and constants of the program                       *)
(***************************************************************************)
MaxFeeds == 2
MaxCrashes == 1
MaxRetriesArg == 4
MaxCapArg == 3

DEFAULT_MAX_RETRIES == 8
DEFAULT_MAX_BLOCKS == 180
FIRST_BATCH == 90
CHUNK_SIZE == 50
MAX_WAIT == 8

(***************************************************************************)
(* backoff_call                                                            *)
(***************************************************************************)
\* What one call of fn gives: it returns (200), raises APIResponseError with
\* status 429, or raises another error (500)
Statuses == {200, 429, 500}

\* backoff_call giving up one rate-limit answer early (attempt >= max_retries)
BackoffStep_Early(attempt, status, max_retries) ==
    IF status = 200 THEN [kind |-> "return", attempt |-> attempt, wait |-> 0]
    ELSE IF status = 429
    THEN IF attempt + 1 >= max_retries
         THEN [kind |-> "raise", attempt |-> attempt + 1, wait |-> 0]
         ELSE [kind |-> "retry", attempt |-> attempt + 1,
               wait |-> Min(2 ^ attempt, MAX_WAIT)]
    ELSE [kind |-> "raise", attempt |-> attempt, wait |-> 0]

\* backoff_call retrying after every error, not only after status 429
BackoffStep_RetryAll(attempt, status, max_retries) ==
    IF status = 200 THEN [kind |-> "return", attempt |-> attempt, wait |-> 0]
    ELSE IF attempt + 1 > max_retries
    THEN [kind |-> "raise", attempt |-> attempt + 1, wait |-> 0]
    ELSE [kind |-> "retry", attempt |-> attempt + 1,
          wait |-> Min(2 ^ attempt, MAX_WAIT)]

\* backoff_call waiting 2^attempt, without the factor 0.5
BackoffStep_NoHalf(attempt, status, max_retries) ==
    IF status = 200 THEN [kind |-> "return", attempt |-> attempt, wait |-> 0]
    ELSE IF status = 429
    THEN IF attempt + 1 > max_retries
         THEN [kind |-> "raise", attempt |-> attempt + 1, wait |-> 0]
         ELSE [kind |-> "retry", attempt |-> attempt + 1,
               wait |-> Min(2 ^ (attempt + 1), MAX_WAIT)]
    ELSE [kind |-> "raise", attempt |-> attempt, wait |-> 0]

\* One iteration of the loop of backoff_call with the attempt counter at
\* `attempt`, when fn answers `status`
BackoffStep(attempt, status, max_retries) ==
    IF status = 200 THEN [kind |-> "return", attempt |-> attempt, wait |-> 0]
    ELSE IF status = 429
    THEN IF attempt + 1 > max_retries
         THEN [kind |-> "raise", attempt |-> attempt + 1, wait |-> 0]
         ELSE [kind |-> "retry", attempt |-> attempt + 1,
               wait |-> Min(2 ^ attempt, MAX_WAIT)]
    ELSE [kind |-> "raise", attempt |-> attempt, wait |-> 0]

\* backoff_call run to its end on the answers resps[k], resps[k+1], ...
RECURSIVE BackoffRun(_, _, _, _)
BackoffRun(resps, k, attempt, max_retries) ==
    LET st == BackoffStep(attempt, resps[k], max_retries)
    IN  IF st.kind = "retry" THEN BackoffRun(resps, k + 1, st.attempt, max_retries)
        ELSE [kind |-> st.kind, calls |-> k, status |-> resps[k]]

\* The answers of the remote API to one backoff_call: some rate-limit
\* answers, then a success or another error
Answers(max_retries) ==
    {[j \in 1..(n + 1) |-> IF j <= n THEN 429 ELSE last] :
        n \in 0..(max_retries + 1), last \in {200, 500}}

\* Whether backoff_call(fn) raises on these answers
Raises(resps) == BackoffRun(resps, 1, 0, DEFAULT_MAX_RETRIES).kind = "raise"

\* How a backoff_call of main can end: it raises (TRUE) or returns (FALSE)
ApiRaises == {Raises(resps) : resps \in Answers(DEFAULT_MAX_RETRIES)}

(***************************************************************************)
(* Entries, items and dedup keys                                           *)
(***************************************************************************)
\* sha256(...).hexdigest()[:n]: a digest without collisions, the digested
\* string itself
Digest(s) == s

\* a key that leaves the feed URL out
_seen_key_NoFeed(feed_url, guid, link) == Digest(Or(Or(guid, link), << >>))

_seen_key(feed_url, guid, link) == Digest(feed_url \o Or(Or(guid, link), << >>))

parse_entry(e, feed_url) ==
    LET link == e.link
        guid == Or(Or(e.id, e.guid), Str(link))
    IN  [title |-> e.title, url |-> link, guid |-> guid,
         hash |-> Digest(Or(guid, << >>) \o <<"|">> \o Or(link, << >>)
                         \o <<"|">> \o e.title)]

(***************************************************************************)
(* The state file                                                          *)
(***************************************************************************)
\* state.json: absent; bytes that are no UTF-8 text ("binary"); text that is
\* no JSON ("garbage"); or JSON: an array of strings ("strings", its elements
\* in items), a number, null, an object (its keys in items), an array with a
\* number in it ("mixed": items and the number), an array of arrays ("nested").
NumberKey == <<"<number>">>
FileOf(kind, items) == [kind |-> kind, items |-> items]
Range(q) == {q[j] : j \in 1..Len(q)}

_load_state(file) ==
    IF file.kind = "absent" THEN Ret({})
    ELSE IF file.kind = "binary" THEN Raise
    ELSE IF file.kind = "garbage" THEN Ret({})
    ELSE IF file.kind \in {"number", "null", "nested"} THEN Raise
    ELSE IF file.kind = "mixed" THEN Ret(Range(file.items) \cup {NumberKey})
    ELSE Ret(Range(file.items))

\* sorted(seen): some fixed order of the keys; a number among strings does
\* not compare (TypeError)
Sorted(S) == CHOOSE q \in [1..Cardinality(S) -> S] : Range(q) = S

_save_state(seen_keys) ==
    IF NumberKey \in seen_keys /\ seen_keys /= {NumberKey} THEN Raise
    ELSE Ret(FileOf("strings", Sorted(seen_keys)))


(***************************************************************************)
(* The documents and feeds the model runs on                              *)
(***************************************************************************)
\* n distinct <pre> elements: n distinct code blocks
PreDoc(n) == [j \in 1..n |-> TagNode("pre", <<StrNode(<<ToString(j)>>)>>)]

\* a <ul> of n empty <li>
UlOf(n) == TagNode("ul", [j \in 1..n |-> TagNode("li", << >>)])

\* <p>x</p>
ParaX == TagNode("p", <<StrNode(<<"x">>)>>)

U1 == <<"https:", "//h", "/1">>

\* An Optional[str] of HTML: None, or the parsed document (the children of
\* its body, in order)
NoHtml == [present |-> FALSE, doc |-> << >>]
Html(doc) == [present |-> TRUE, doc |-> doc]

\* What fetch_article_html can give for a URL: None (the fetch failed or
\* nothing was extracted) or the extracted document
FetchLens == {1, FIRST_BATCH, FIRST_BATCH + 1, FIRST_BATCH + CHUNK_SIZE}
Fetched ==
    {NoHtml} \cup {Html(PreDoc(n)) : n \in FetchLens}
        \cup {Html(<<ParaX>>), Html(<<StrNode(<<" ">>)>>),
              Html(PreDoc(DEFAULT_MAX_BLOCKS - 1)
                \o <<UlOf(FIRST_BATCH + 2 * CHUNK_SIZE + 2 - DEFAULT_MAX_BLOCKS)>>)}

\* A feed entry as feedparser gives it: id, guid, link, title, and in html
\* what first_html_content finds in it
Entry(id, link, title, html) ==
    [id |-> id, guid |-> None, link |-> link, title |-> title, html |-> html]

\* an entry with an id and a link and no HTML of its own: its article is fetched
EntryA == Entry(<<"g1">>, U1, <<"t1">>, NoHtml)
\* entries with no id, no guid and no link, of different titles
EntryB == Entry(None, None, <<"t1">>, NoHtml)
EntryC == Entry(None, None, <<"t2">>, Html(PreDoc(1)))
\* an entry with no id and an empty link
EntryD == Entry(None, << >>, <<"t1">>, Html(PreDoc(1)))

\* what feedparser.parse can give for a feed URL
ParsedFeeds == {<< >>, <<EntryA, EntryD>>, <<EntryB, EntryC>>, <<EntryD, EntryD>>}

SeqsUpTo(S, n) == UNION {[1..k -> S] : k \in 0..n}

\* the feed lists: at most MaxFeeds feeds
FeedLists == SeqsUpTo(ParsedFeeds, MaxFeeds)

FeedUrl(f) == <<"https:", "//h", "/feed", ToString(f)>>

\* the state files the first run can start from: none, or one cut short
StartFiles == {FileOf("absent", << >>), FileOf("garbage", << >>)}

(***************************************************************************)
(* The state of main, of the remote store and of the state file           *)
(***************************************************************************)
VARIABLES
    feeds,        \* the feed list: feeds[f] is what feedparser.parse gives
    stateFile,    \* state.json
    pages,        \* the remote database: the pages created, in order
    pc,           \* where main is
    fi,           \* the index of `url` in feeds
    ei,           \* the index of `e` in parsed.entries
    seen,         \* the set seen
    state_dirty,
    children,     \* the blocks of the entry being written
    cur_html,     \* the html they were built from
    page_id,      \* the page create_page returned (its index in pages)
    off,          \* the i of the loop of append_blocks
    sent,         \* the calls create_page / append made for this entry
    visited,      \* the feeds this run has started, in order
    aborts,       \* where this run's feeds raised: the feed, the entry, the step
    prev,         \* how the run before this one ended
    crashes,      \* the runs that were stopped, so far
    bk,           \* a call of backoff_call, for the specification SpecBackoff
    fn            \* a call of a pure function, for the specification SpecFn

mainVars == <<feeds, stateFile, pages, pc, fi, ei, seen, state_dirty,
              children, cur_html, page_id, off, sent, visited, aborts, prev,
              crashes>>
vars == <<feeds, stateFile, pages, pc, fi, ei, seen, state_dirty,
          children, cur_html, page_id, off, sent, visited, aborts, prev,
          crashes, bk, fn>>

CurEntry == feeds[fi][ei]
CurItem == parse_entry(CurEntry, FeedUrl(fi))
CurKey == _seen_key(FeedUrl(fi), CurItem.guid, CurItem.url)
HasEntry == fi \in 1..Len(feeds) /\ ei \in 1..Len(feeds[fi])

Idle == [kind |-> "none"]

InitMain(fl, file) ==
    /\ feeds = fl
    /\ stateFile = file
    /\ pages = << >>
    /\ pc = "idle"
    /\ fi = 0
    /\ ei = 0
    /\ seen = {}
    /\ state_dirty = FALSE
    /\ children = << >>
    /\ cur_html = NoHtml
    /\ page_id = 0
    /\ off = 0
    /\ sent = << >>
    /\ visited = << >>
    /\ aborts = << >>
    /\ prev = "none"
    /\ crashes = 0

Init ==
    /\ \E fl \in FeedLists, file \in StartFiles : InitMain(fl, file)
    /\ bk = Idle
    /\ fn = Idle


(***************************************************************************)
(* The remote database                                                     *)
(***************************************************************************)
\* databases.query with the filter of exists_by_guid_or_url: some page has
\* the GUID property equal to guid or the URL property equal to url, each
\* filter present only for a truthy argument
QueryMatches(guid, url) ==
    \E j \in 1..Len(pages) :
        \/ Truthy(guid) /\ pages[j].guid = guid
        \/ Truthy(url) /\ pages[j].url = url

\* exists_by_guid_or_url when its backoff_call raises or not: no filter, no
\* query; else whether the query returned a result
exists_by_guid_or_url(guid, url, raises) ==
    IF ~Truthy(guid) /\ ~Truthy(url) THEN Ret(FALSE)
    ELSE IF raises THEN Raise
    ELSE Ret(QueryMatches(guid, url))

\* the page pages.create stores for item: its GUID and URL properties, and
\* whether it holds all the blocks of the entry
PageOf(item, complete) ==
    [guid |-> Or(item.guid, item.hash), url |-> item.url, complete |-> complete]

(***************************************************************************)
(* main                                                                    *)
(***************************************************************************)
\* an exception caught around the loop over the feeds: main ends
Abort_EndsRun ==
    /\ pc' = "done"
    /\ aborts' = Append(aborts, [f |-> fi, e |-> ei, at |-> pc])
    /\ children' = << >>
    /\ cur_html' = NoHtml
    /\ sent' = << >>
    /\ off' = 0

\* an exception handler that starts the feed over
Abort_RetryFeed ==
    /\ pc' = "feeds"
    /\ aborts' = Append(aborts, [f |-> fi, e |-> ei, at |-> pc])
    /\ children' = << >>
    /\ cur_html' = NoHtml
    /\ sent' = << >>
    /\ off' = 0

\* except Exception: the feed's loop over its entries is left
Abort ==
    /\ pc' = "flush"
    /\ aborts' = Append(aborts, [f |-> fi, e |-> ei, at |-> pc])
    /\ children' = << >>
    /\ cur_html' = NoHtml
    /\ sent' = << >>
    /\ off' = 0

\* `continue`, or the end of the loop body: on to the next entry
NextEntry ==
    /\ pc' = "entries"
    /\ ei' = ei + 1
    /\ children' = << >>
    /\ cur_html' = NoHtml
    /\ sent' = << >>
    /\ off' = 0

\* main up to the loop over the feeds: no feeds, return; else load the state
MainStart ==
    /\ pc = "idle"
    /\ IF feeds = << >>
       THEN pc' = "done" /\ UNCHANGED <<seen, fi>>
       ELSE LET r == _load_state(stateFile)
            IN  IF r.ok THEN pc' = "feeds" /\ seen' = r.v /\ fi' = 1
                ELSE pc' = "crashed" /\ UNCHANGED <<seen, fi>>
    /\ state_dirty' = FALSE
    /\ UNCHANGED <<feeds, stateFile, pages, ei, children, cur_html, page_id, off,
                   sent, visited, aborts, prev, crashes, bk, fn>>

\* for url in feeds: feedparser.parse(url)
FeedStart ==
    /\ pc = "feeds"
    /\ fi <= Len(feeds)
    /\ pc' = "entries"
    /\ ei' = 1
    /\ visited' = Append(visited, fi)
    /\ UNCHANGED <<feeds, stateFile, pages, fi, seen, state_dirty, children, cur_html,
                   page_id, off, sent, aborts, prev, crashes, bk, fn>>

\* for e in parsed.entries: parse_entry and the remote existence check
CheckRemote ==
    /\ pc = "entries"
    /\ HasEntry
    /\ \E raises \in ApiRaises :
        LET r == exists_by_guid_or_url(CurItem.guid, CurItem.url, raises)
        IN  IF ~r.ok THEN Abort /\ UNCHANGED ei
            ELSE IF r.v THEN NextEntry /\ UNCHANGED aborts
            ELSE /\ pc' = "lookup"
                 /\ UNCHANGED <<ei, aborts, children, cur_html, sent, off>>
    /\ UNCHANGED <<feeds, stateFile, pages, fi, seen, state_dirty, page_id,
                   visited, prev, crashes, bk, fn>>

\* the loop over the entries ends: log.info
FeedEnd ==
    /\ pc = "entries"
    /\ ~HasEntry
    /\ pc' = "flush"
    /\ UNCHANGED <<feeds, stateFile, pages, fi, ei, seen, state_dirty,
                   children, cur_html, page_id, off, sent, visited, aborts, prev, crashes, bk, fn>>

\* main without the lookup in seen
CheckSeen_NoLookup ==
    /\ pc = "lookup"
    /\ pc' = "resolve"
    /\ UNCHANGED <<ei, children, cur_html, sent, off>>
    /\ UNCHANGED <<feeds, stateFile, pages, fi, seen, state_dirty, page_id,
                   visited, aborts, prev, crashes, bk, fn>>

\* k = _seen_key(...); if k in seen: continue
CheckSeen ==
    /\ pc = "lookup"
    /\ IF CurKey \in seen THEN NextEntry
       ELSE pc' = "resolve" /\ UNCHANGED <<ei, children, cur_html, sent, off>>
    /\ UNCHANGED <<feeds, stateFile, pages, fi, seen, state_dirty, page_id,
                   visited, aborts, prev, crashes, bk, fn>>

\* a fallback made only when the entry has a URL
Fallback_UrlOnly(item) ==
    IF Truthy(item.url)
    THEN <<RichBlock("paragraph",
             <<text_obj(<<"Open on the web: ">> \o item.url, {})>>)>>
    ELSE << >>

\* "Open on the web: " + (item["url"] or "No URL")
Fallback(item) ==
    <<RichBlock("paragraph",
        <<text_obj(<<"Open on the web: ">> \o Or(item.url, <<"No URL">>), {})>>)>>

\* the children main builds from html, the feed's or the fetched one
ChildrenOf(item, html) ==
    IF ~html.present THEN Ret(Fallback(item))
    ELSE LET r == html_to_blocks(html.doc, item.url, DEFAULT_MAX_BLOCKS)
         IN  IF ~r.ok THEN Raise
             ELSE IF r.v = << >> THEN Ret(Fallback(item)) ELSE r

\* first_html_content, fetch_article_html, html_to_blocks, the fallback
Resolve ==
    /\ pc = "resolve"
    /\ \E fetched \in Fetched :
        LET html == IF ~CurEntry.html.present /\ Truthy(CurItem.url)
                    THEN fetched ELSE CurEntry.html
            r == ChildrenOf(CurItem, html)
        IN  IF ~r.ok THEN Abort
            ELSE /\ children' = r.v
                 /\ cur_html' = html
                 /\ pc' = "create"
                 /\ UNCHANGED <<aborts, sent, off>>
    /\ UNCHANGED <<feeds, stateFile, pages, fi, ei, seen, state_dirty,
                   page_id, visited, prev, crashes, bk, fn>>

\* first = children[:90]; rest = children[90:]
First == Take(children, FIRST_BATCH)
Rest == Drop(children, FIRST_BATCH)

\* page_id = create_page(item, first)
CreatePage ==
    /\ pc = "create"
    /\ \E raises \in ApiRaises :
        /\ IF raises
           THEN Abort /\ UNCHANGED <<pages, page_id>>
           ELSE /\ pages' = Append(pages, PageOf(CurItem, Rest = << >>))
                /\ page_id' = Len(pages) + 1
                /\ sent' = Append(sent, [op |-> "create", children |-> First])
                /\ off' = 0
                /\ pc' = IF Rest /= << >> THEN "append" ELSE "mark"
                /\ UNCHANGED <<aborts, children, cur_html>>
    /\ UNCHANGED <<feeds, stateFile, fi, ei, seen, state_dirty, visited, prev, crashes, bk, fn>>

\* chunks one block too long: blocks[i : i + chunk_size + 1]
Chunk_Overlap(blocks, i, chunk_size) ==
    SubSeq(blocks, i + 1, Min(i + chunk_size + 1, Len(blocks)))

\* blocks[i : i + chunk_size]
Chunk(blocks, i, chunk_size) == SubSeq(blocks, i + 1, Min(i + chunk_size, Len(blocks)))

\* append_blocks swallowing the error of a chunk and returning
AppendChunk_Swallow ==
    /\ pc = "append"
    /\ \E raises \in ApiRaises :
        /\ IF raises
           THEN pc' = "mark" /\ UNCHANGED <<pages, sent, off>>
           ELSE /\ sent' = Append(sent, [op |-> "append",
                                         children |-> Chunk(Rest, off, CHUNK_SIZE)])
                /\ off' = off + CHUNK_SIZE
                /\ IF off + CHUNK_SIZE < Len(Rest)
                   THEN pc' = "append" /\ UNCHANGED pages
                   ELSE /\ pc' = "mark"
                        /\ pages' = [pages EXCEPT ![page_id].complete = TRUE]
        /\ UNCHANGED <<aborts, children, cur_html>>
    /\ UNCHANGED <<feeds, stateFile, fi, ei, seen, state_dirty, page_id,
                   visited, prev, crashes, bk, fn>>

\* one iteration of the loop of append_blocks(page_id, rest, chunk_size=50)
AppendChunk ==
    /\ pc = "append"
    /\ \E raises \in ApiRaises :
        /\ IF raises
           THEN Abort /\ UNCHANGED pages
           ELSE /\ sent' = Append(sent, [op |-> "append",
                                         children |-> Chunk(Rest, off, CHUNK_SIZE)])
                /\ off' = off + CHUNK_SIZE
                /\ IF off + CHUNK_SIZE < Len(Rest)
                   THEN pc' = "append" /\ UNCHANGED pages
                   ELSE /\ pc' = "mark"
                        /\ pages' = [pages EXCEPT ![page_id].complete = TRUE]
                /\ UNCHANGED <<aborts, children, cur_html>>
    /\ UNCHANGED <<feeds, stateFile, fi, ei, seen, state_dirty, page_id,
                   visited, prev, crashes, bk, fn>>

\* main adding the key without setting state_dirty
MarkSeen_NotDirty ==
    /\ pc = "mark"
    /\ seen' = seen \cup {CurKey}
    /\ NextEntry
    /\ UNCHANGED <<feeds, stateFile, pages, fi, state_dirty, page_id, visited,
                   aborts, prev, crashes, bk, fn>>

\* seen.add(k); state_dirty = True; new_count += 1
MarkSeen ==
    /\ pc = "mark"
    /\ seen' = seen \cup {CurKey}
    /\ state_dirty' = TRUE
    /\ NextEntry
    /\ UNCHANGED <<feeds, stateFile, pages, fi, page_id, visited, aborts, prev, crashes, bk, fn>>

\* the flush done inside the try: skipped when the feed raised
SaveState_InsideTry ==
    /\ pc = "flush"
    /\ LET r == _save_state(seen)
           raised == aborts /= << >> /\ aborts[Len(aborts)].f = fi
       IN  IF state_dirty /\ ~raised /\ ~r.ok
           THEN pc' = "crashed" /\ UNCHANGED <<stateFile, fi>>
           ELSE /\ stateFile' = IF state_dirty /\ ~raised THEN r.v ELSE stateFile
                /\ fi' = fi + 1
                /\ pc' = IF fi + 1 > Len(feeds) THEN "done" ELSE "feeds"
    /\ UNCHANGED <<feeds, pages, ei, seen, state_dirty, children, cur_html, page_id,
                   off, sent, visited, aborts, prev, crashes, bk, fn>>

\* if state_dirty: _save_state(seen); then the next feed, or the end of main
SaveState ==
    /\ pc = "flush"
    /\ LET r == _save_state(seen)
       IN  IF state_dirty /\ ~r.ok
           THEN pc' = "crashed" /\ UNCHANGED <<stateFile, fi>>
           ELSE /\ stateFile' = IF state_dirty THEN r.v ELSE stateFile
                /\ fi' = fi + 1
                /\ pc' = IF fi + 1 > Len(feeds) THEN "done" ELSE "feeds"
    /\ UNCHANGED <<feeds, pages, ei, seen, state_dirty, children, cur_html, page_id,
                   off, sent, visited, aborts, prev, crashes, bk, fn>>

\* main is run again: the feeds, the remote store and the state file are as
\* the run before left them
NextRun ==
    /\ pc \in {"done", "crashed"}
    /\ pc' = "idle"
    /\ prev' = IF pc = "crashed" THEN "crashed"
               ELSE IF aborts = << >> THEN "clean" ELSE "aborted"
    /\ fi' = 0
    /\ ei' = 0
    /\ seen' = {}
    /\ state_dirty' = FALSE
    /\ children' = << >>
    /\ cur_html' = NoHtml
    /\ page_id' = 0
    /\ off' = 0
    /\ sent' = << >>
    /\ visited' = << >>
    /\ aborts' = << >>
    /\ UNCHANGED <<feeds, stateFile, pages, crashes, bk, fn>>

Next ==
    \/ MainStart
    \/ FeedStart
    \/ CheckRemote
    \/ FeedEnd
    \/ CheckSeen
    \/ Resolve
    \/ CreatePage
    \/ AppendChunk
    \/ MarkSeen
    \/ SaveState
    \/ NextRun

Spec == Init /\ [][Next]_vars

\* a step of a run of main: every call main makes returns or raises, so a
\* run that can take a step takes one
MainStep == Next /\ pc \notin {"done", "crashed"}

\* the first run starts with no state file
InitFair == Init /\ stateFile.kind = "absent"
SpecFair == InitFair /\ [][Next]_vars /\ WF_vars(MainStep)

(***************************************************************************)
(* main with a process that can be stopped inside a feed                  *)
(***************************************************************************)
\* the process stops (it is killed, the machine goes down) somewhere between
\* the start of a feed and the end of its flush: nothing more is written.
\* At most MaxCrashes runs are stopped.
Crash ==
    /\ pc \in {"entries", "lookup", "resolve", "create", "append", "mark", "flush"}
    /\ crashes < MaxCrashes
    /\ crashes' = crashes + 1
    /\ pc' = "crashed"
    /\ UNCHANGED <<feeds, stateFile, pages, fi, ei, seen, state_dirty, children,
                   cur_html, page_id, off, sent, visited, aborts, prev, bk, fn>>

NextCrash ==
    \/ Next
    \/ Crash

SpecCrash == Init /\ [][NextCrash]_vars

(***************************************************************************)
(* backoff_call, one iteration of its loop at a time                      *)
(***************************************************************************)
\* the values fn can return and the statuses, other than 429, it can raise
FnResults == {"r1", "r2"}
ErrorStatuses == {400, 500}
RetryArgs == 0..MaxRetriesArg \cup {DEFAULT_MAX_RETRIES}

\* the main of a system with no feeds, for the specifications of the functions
NoMain == InitMain(<< >>, FileOf("absent", << >>))

\* backoff_call(fn, max_retries): attempt = 0, no call of fn made yet
InitBackoff ==
    /\ NoMain
    /\ fn = Idle
    /\ \E m \in RetryArgs :
        bk = [kind |-> "backoff_call", max_retries |-> m, attempt |-> 0,
              calls |-> 0, waits |-> << >>, st |-> "running", last |-> 0,
              value |-> "", result |-> ""]

\* one iteration of `while True`: fn is called and answers status (and value
\* v when it returns)
BackoffIter(status, v) ==
    /\ bk.kind = "backoff_call"
    /\ bk.st = "running"
    /\ LET st == BackoffStep(bk.attempt, status, bk.max_retries)
       IN  bk' = [bk EXCEPT
                    !.calls = bk.calls + 1,
                    !.last = status,
                    !.attempt = st.attempt,
                    !.waits = IF st.kind = "retry" THEN Append(bk.waits, st.wait)
                              ELSE bk.waits,
                    !.value = IF status = 200 THEN v ELSE bk.value,
                    !.result = IF st.kind = "return" THEN v ELSE bk.result,
                    !.st = IF st.kind = "retry" THEN "running"
                           ELSE IF st.kind = "return" THEN "returned"
                           ELSE "raised"]
    /\ UNCHANGED <<feeds, stateFile, pages, pc, fi, ei, seen, state_dirty,
                   children, cur_html, page_id, off, sent, visited, aborts, prev, crashes, fn>>

FnReturns == \E v \in FnResults : BackoffIter(200, v)
FnRateLimited == BackoffIter(429, "")
FnFails == \E status \in ErrorStatuses : BackoffIter(status, "")

NextBackoff ==
    \/ FnReturns
    \/ FnRateLimited
    \/ FnFails

SpecBackoff == InitBackoff /\ [][NextBackoff]_vars

(***************************************************************************)
(* The pure functions, each called once on an argument of a bounded set   *)
(***************************************************************************)
\* the top-level elements of the documents html_to_blocks is called on
PreA == TagNode("pre", <<StrNode(<<"a">>)>>)
DocElements ==
    {StrNode(<<"t">>), StrNode(<<" ">>), PreA, UlOf(2), UlOf(0),
     TagNode("div", <<PreA, StrNode(<<"d">>)>>), ParaX,
     AttrNode("img", <<"/i.png">>, << >>)}
HtmlDocs == SeqsUpTo(DocElements, MaxCapArg)

\* the inline subtrees build_rich_text_inline is called on
Leaves == {StrNode(<<"x">>), StrNode(<< >>), TagNode("br", << >>),
           TagNode("b", << >>)}
Wraps(S, names) == {TagNode(n, <<k>>) : n \in names, k \in S}
Depth1 == Wraps(Leaves, {"b", "i", "span"})
             \cup {AttrNode("a", <<"https:", "//h", "/1">>, <<k>>) : k \in Leaves}
             \cup {TagNode("a", <<k>>) : k \in Leaves}
Depth2 == Wraps(Depth1, {"b", "a"})
             \cup {AttrNode("a", <<"https:", "//h", "/1">>, <<k>>) : k \in Depth1}
InlineNodes == Leaves \cup Depth1 \cup Depth2
                  \cup {TagNode("b", <<StrNode(<<"x">>), StrNode(<<"y">>)>>)}

\* the contents of state.json
StateFiles ==
    {FileOf(k, << >>) : k \in {"absent", "binary", "garbage", "number", "null",
                               "nested", "strings", "object", "string"}}
        \cup {FileOf(k, <<<<"k1">>, <<"k2">>>>) : k \in {"strings", "mixed", "object"}}
        \cup {FileOf("strings", <<<<"k1">>, <<"k1">>>>), FileOf("mixed", << >>)}

Call(f, args) == [kind |-> "call", f |-> f, args |-> args]
Return(call, res) == [kind |-> "return", f |-> call.f, args |-> call.args, res |-> res]

\* the href and src attributes of the documents with a link or an image
Hrefs ==
    {<<"https:", "//h", "/p">>, <<"http:", "//g">>, <<"ftp:", "//h", "/p">>,
     <<"mailto:", "a">>, <<"javascript:", "x">>, <<"JavaScript:", "x">>,
     <<"data:", "x">>, <<"about:", "x">>, <<"#f">>, <<"/p">>, <<"//g", "/p">>,
     <<" ", "https:", "//h">>, <<" ", "javascript:", "x">>}

\* <a href=h>x</a> and <img src=h>
LinkDoc(h) == <<AttrNode("a", h, <<StrNode(<<"x">>)>>)>>
ImgDoc(h) == <<AttrNode("img", h, << >>)>>

\* html_to_blocks on these documents, with a base URL and without
UrlCalls ==
    {Call("html_to_blocks",
          [html |-> d, base_url |-> b, max_blocks |-> DEFAULT_MAX_BLOCKS]) :
        d \in {LinkDoc(h) : h \in Hrefs} \cup {ImgDoc(h) : h \in Hrefs},
        b \in {None, U1}}

\* the arguments of _seen_key: feed URLs one of which is the start of the
\* others, and guids and links that are None, empty, or a few characters
KeyFeeds == {<<"https:", "//h", "/feed">>, FeedUrl(1), FeedUrl(2)}
KeyParts == {None, << >>, <<"1">>, <<"x">>, <<"1", "x">>}
KeyArgs == [feed_url : KeyFeeds, guid : KeyParts, link : KeyParts]
KeyCalls == {Call("_seen_key", a) : a \in KeyArgs}

FnCalls ==
    {Call("html_to_blocks", [html |-> d, base_url |-> U1, max_blocks |-> m]) :
        d \in HtmlDocs, m \in 1..MaxCapArg}
      \cup UrlCalls
      \cup KeyCalls
      \cup {Call("build_rich_text_inline", [node |-> n]) : n \in InlineNodes}
      \cup {Call("_load_state", [file |-> x]) : x \in StateFiles}

InitFn ==
    /\ NoMain
    /\ bk = Idle
    /\ fn \in FnCalls

Called(f) == fn.kind = "call" /\ fn.f = f
Returned(f) == fn.kind = "return" /\ fn.f = f

FnUnchanged ==
    UNCHANGED <<feeds, stateFile, pages, pc, fi, ei, seen, state_dirty,
                children, cur_html, page_id, off, sent, visited, aborts, prev, crashes, bk>>

Call_html_to_blocks ==
    /\ Called("html_to_blocks")
    /\ fn' = Return(fn, html_to_blocks(fn.args.html, fn.args.base_url,
                                       fn.args.max_blocks))
    /\ FnUnchanged

Call_build_rich_text_inline ==
    /\ Called("build_rich_text_inline")
    /\ fn' = Return(fn, build_rich_text_inline(fn.args.node, {}, None))
    /\ FnUnchanged

Call_load_state ==
    /\ Called("_load_state")
    /\ fn' = Return(fn, _load_state(fn.args.file))
    /\ FnUnchanged

Call_seen_key ==
    /\ Called("_seen_key")
    /\ fn' = Return(fn, _seen_key(fn.args.feed_url, fn.args.guid, fn.args.link))
    /\ FnUnchanged

NextFn ==
    \/ Call_html_to_blocks
    \/ Call_build_rich_text_inline
    \/ Call_load_state
    \/ Call_seen_key

SpecFn == InitFn /\ [][NextFn]_vars

(***************************************************************************)
(* The claims                                                              *)
(***************************************************************************)
\* create_page is called in the step CreatePage, taken from the states with
\* pc = "create" and from no other
CallsCreatePage == pc = "create"

RemoteTrue == exists_by_guid_or_url(CurItem.guid, CurItem.url, FALSE).v

\* a step that skips the current entry: on to the next entry with nothing
\* resolved, no page created and seen as it was
SkipStep ==
    /\ pc' = "entries" /\ ei' = ei + 1 /\ fi' = fi
    /\ seen' = seen /\ pages' = pages /\ children' = << >> /\ sent' = << >>

\* C2: for every entry the remote check comes first and the lookup in seen
\* only after it returned false; the entry is skipped iff the remote check
\* returns true or its key is in seen, and a skip resolves nothing, creates
\* nothing and leaves seen alone; otherwise the entry goes on to be written.
C2_SkipRule ==
    [][ /\ (pc = "entries" /\ HasEntry) =>
            \/ pc' = "flush" /\ seen' = seen /\ pages' = pages
            \/ RemoteTrue /\ SkipStep
            \/ ~RemoteTrue /\ pc' = "lookup" /\ seen' = seen /\ pages' = pages
        /\ pc' = "lookup" => pc = "entries" /\ ei' = ei /\ fi' = fi
        /\ pc = "lookup" =>
            /\ ~RemoteTrue
            /\ IF CurKey \in seen THEN SkipStep
               ELSE pc' = "resolve" /\ ei' = ei /\ fi' = fi
        /\ pc' = "resolve" => pc = "lookup"
        /\ pc' = "create" => pc = "resolve" /\ ~RemoteTrue /\ CurKey \notin seen
      ]_vars

\* the remote check returned false for an entry whose key is in seen
C2_Witness == pc = "lookup" /\ CurKey \in seen /\ pages /= << >>

\* C3: backoff_call retries a call answered with status 429, the attempt
\* counter counting these answers from 1, as long as the counter does not
\* exceed max_retries; when it does the error is raised, after exactly
\* max_retries + 1 calls, and nothing is called after that; a call that
\* returns ends backoff_call with that call's value.
C3_BoundedRetry ==
    /\ [](bk.kind = "backoff_call" =>
            /\ bk.calls <= bk.max_retries + 1
            /\ bk.st = "running" =>
                /\ bk.attempt = bk.calls
                /\ bk.attempt <= bk.max_retries
                /\ Len(bk.waits) = bk.attempt
                /\ bk.calls > 0 => bk.last = 429
            /\ (bk.last = 429 /\ bk.attempt <= bk.max_retries) => bk.st = "running"
            /\ (bk.last = 429 /\ bk.st = "raised") =>
                /\ bk.attempt = bk.max_retries + 1
                /\ bk.calls = bk.max_retries + 1
            /\ bk.st = "returned" => bk.last = 200 /\ bk.result = bk.value
            /\ bk.last = 200 => bk.st = "returned")
    /\ [][bk.st = "running"]_bk

\* the default maximum of 8 retries is exceeded
C3_Witness ==
    /\ bk.kind = "backoff_call" /\ bk.max_retries = DEFAULT_MAX_RETRIES
    /\ bk.st = "raised" /\ bk.last = 429 /\ bk.calls = DEFAULT_MAX_RETRIES + 1

\* C4: an error with a status other than 429 ends backoff_call at once with
\* that error, whatever the number of retries before it: no wait follows it
\* and fn is not called again.
C4_ErrorPropagates ==
    /\ [](bk.kind = "backoff_call" /\ bk.last \in ErrorStatuses =>
            /\ bk.st = "raised"
            /\ bk.calls = bk.attempt + 1
            /\ Len(bk.waits) = bk.attempt)
    /\ [][bk.last \notin ErrorStatuses]_bk

\* status 500 after two retries
C4_Witness ==
    /\ bk.kind = "backoff_call" /\ bk.last = 500 /\ bk.attempt = 2
    /\ bk.st = "raised" /\ bk.max_retries = DEFAULT_MAX_RETRIES

\* the children of the calls made for the current entry, in the order sent
SentChildren == Concat([j \in 1..Len(sent) |-> sent[j].children])

\* C5: the first call made for an entry is create_page with the first
\* min(n, 90) blocks; the calls after it are appends of 1..50 blocks each;
\* what has been sent is at every moment a prefix of the block list, and
\* all of it once the write is over; with n <= 90 there is no append.
C5_PaginatedWrite ==
    /\ pc \in {"append", "mark"} => sent /= << >>
    /\ sent /= << >> =>
        /\ sent[1].op = "create"
        /\ sent[1].children = SubSeq(children, 1, Min(Len(children), FIRST_BATCH))
        /\ \A j \in 2..Len(sent) :
            /\ sent[j].op = "append"
            /\ Len(sent[j].children) \in 1..CHUNK_SIZE
            /\ j < Len(sent) => Len(sent[j].children) = CHUNK_SIZE
        /\ SentChildren = SubSeq(children, 1, Len(SentChildren))
        /\ Len(children) <= FIRST_BATCH => Len(sent) = 1
    /\ pc = "mark" => SentChildren = children

\* an entry of more than 90 + 50 blocks has been written
C5_Witness ==
    /\ pc = "mark" /\ Len(children) > FIRST_BATCH + CHUNK_SIZE
    /\ Len(sent) >= 3

\* C6, as stated: html_to_blocks returns at most max_blocks blocks, the first
\* blocks of the document.
C6_BlockCap ==
    (Returned("html_to_blocks") /\ fn.res.ok) =>
        /\ Len(fn.res.v) <= fn.args.max_blocks
        /\ LET all == html_to_blocks(fn.args.html, fn.args.base_url,
                                     DEFAULT_MAX_BLOCKS)
           IN  all.ok /\ fn.res.v = SubSeq(all.v, 1, Len(fn.res.v))

\* C7: a feed that raised is left at the entry that raised (its remaining
\* entries are not processed), and main goes on with the feeds after it:
\* the feeds are started in the order of the list, each once, and all of
\* them when main returns.
C7_FeedIsolation ==
    /\ \A j \in 1..Len(aborts) :
        \/ aborts[j].f < fi
        \/ aborts[j].f = fi /\ pc = "flush" /\ ei = aborts[j].e
    /\ visited = [j \in 1..Len(visited) |-> j]
    /\ pc \in {"entries", "lookup", "resolve", "create", "append", "mark",
               "flush"} => Len(visited) = fi
    /\ pc = "feeds" => Len(visited) = fi - 1
    /\ pc = "done" => Len(visited) = Len(feeds)

\* the first feed raised at the first of its two entries and main has gone
\* through the second feed
C7_Witness ==
    /\ pc = "done" /\ prev = "none" /\ Len(feeds) = 2 /\ Len(feeds[1]) = 2
    /\ aborts /= << >> /\ aborts[1].f = 1 /\ aborts[1].e = 1
    /\ visited = <<1, 2>> /\ pages /= << >>

\* the key of the entry e of feed f
KeyAt(f, e) ==
    _seen_key(FeedUrl(f), parse_entry(feeds[f][e], FeedUrl(f)).guid,
              parse_entry(feeds[f][e], FeedUrl(f)).url)

\* create_page and every append of the current entry have returned
WriteComplete ==
    /\ sent /= << >>
    /\ SentChildren = children
    /\ page_id \in 1..Len(pages)
    /\ pages[page_id] = PageOf(CurItem, TRUE)

\* C8: within a run seen changes only by the key of the current entry being
\* added once its create_page and all its appends have returned, and this
\* is done before the next entry is taken up; a step in which a write raises
\* leaves seen alone, and the key of an entry whose write raised is not in
\* seen for the rest of the run.
C8_SeenAfterWrite ==
    /\ [](\A j \in 1..Len(aborts) :
            aborts[j].at \in {"create", "append"} =>
                KeyAt(aborts[j].f, aborts[j].e) \notin seen)
    /\ [][ /\ (seen' /= seen /\ pc \notin {"idle", "done", "crashed"}) =>
                /\ pc = "mark"
                /\ WriteComplete
                /\ seen' = seen \cup {CurKey}
           /\ pc = "mark" => CurKey \in seen' /\ pc' = "entries" /\ ei' = ei + 1
           /\ pc' = "mark" => pc \in {"create", "append"}
           /\ (pc \in {"create", "append"} /\ pc' = "flush") => seen' = seen
         ]_vars

\* an append raised in a run that has added keys to seen
C8_Witness ==
    /\ pc = "done" /\ seen /= {}
    /\ \E j \in 1..Len(aborts) : aborts[j].at = "append"

\* C9, as stated: _load_state returns a set for every content of the state
\* file, the empty set unless the file is a JSON array of strings.
C9_LoadNeverFails ==
    Returned("_load_state") =>
        /\ fn.res.ok
        /\ fn.args.file.kind /= "strings" => fn.res.v = {}

\* the spans C10 describes: one for each text node (and line break), in
\* document order, annotated with the flags of the tags around it
RECURSIVE TextSpans(_, _)
TextSpansOf(kids, ann) == Concat([k \in 1..Len(kids) |-> TextSpans(kids[k], ann)])
TextSpans(node, ann) ==
    IF node.nt = "str"
    THEN IF node.s = << >> THEN << >> ELSE <<[content |-> node.s, ann |-> ann]>>
    ELSE IF node.name = "br" THEN <<[content |-> <<"\n">>, ann |-> ann]>>
    ELSE TextSpansOf(node.kids,
                     IF node.name \in DOMAIN INLINE_TAGS
                     THEN ann \cup {INLINE_TAGS[node.name]} ELSE ann)

\* C10, as stated: build_rich_text_inline returns, without an error, the
\* spans of the text nodes of the subtree, each once and in document order,
\* each annotated with the flags of the tags enclosing it.
C10_RichText ==
    Returned("build_rich_text_inline") =>
        /\ fn.res.ok
        /\ [j \in 1..Len(fn.res.v) |->
                [content |-> fn.res.v[j].content, ann |-> fn.res.v[j].ann]]
             = TextSpans(fn.args.node, {})

\* an absolute http or https URL
IsHttpUrl(u) == Len(u) >= 2 /\ u[1] \in {"http:", "https:"} /\ u[2] \in Netlocs

\* the link targets of the spans and the URLs of the images of these blocks
EmittedUrls(blocks) ==
    {blocks[j].url : j \in {i \in 1..Len(blocks) : blocks[i].type = "image"}}
        \cup UNION {{blocks[j].rich[k].link :
                        k \in {i \in 1..Len(blocks[j].rich) :
                                  blocks[j].rich[i].link /= None}} :
                    j \in 1..Len(blocks)}

\* C11, as stated: every link target and every image URL that html_to_blocks
\* emits is an absolute http or https URL, with a base URL and without, so
\* that an href or src of another scheme gives no link and no image.
C11_LinkSchemes ==
    (Returned("html_to_blocks") /\ fn.res.ok) =>
        \A u \in EmittedUrls(fn.res.v) : IsHttpUrl(u)

\* C12, as stated: whatever the runs, stopped ones among them, no two pages
\* of the remote store have the same GUID or the same URL.
C12_NoDuplicatePages ==
    \A i \in 1..Len(pages) : \A j \in (i + 1)..Len(pages) :
        /\ pages[i].guid /= pages[j].guid
        /\ Truthy(pages[i].url) => pages[i].url /= pages[j].url

\* C13: the wait before retry k is min(0.5 * 2^k, 8) (twice the wait is
\* min(2^k, 16)), so the waits of a call are non-decreasing and at most 8;
\* a call that returns after three rate-limit answers has called fn 4 times.
C13_BackoffWaits ==
    bk.kind = "backoff_call" =>
        /\ \A k \in 1..Len(bk.waits) :
            /\ 2 * bk.waits[k] = Min(2 ^ k, 2 * 8)
            /\ bk.waits[k] <= 8
            /\ k > 1 => bk.waits[k - 1] <= bk.waits[k]
        /\ (bk.st = "returned" /\ Len(bk.waits) = 3) => bk.calls = 4

\* three rate-limit answers and a success, with the default max_retries
C13_Witness ==
    /\ bk.kind = "backoff_call" /\ bk.max_retries = DEFAULT_MAX_RETRIES
    /\ bk.st = "returned" /\ bk.calls = 4 /\ bk.waits = <<1, 2, 4>>

\* guid, or link when guid is absent, or the empty string
KeyBase(a) ==
    IF Truthy(a.guid) THEN a.guid ELSE IF Truthy(a.link) THEN a.link ELSE << >>

\* C14: the key is the digest of feed_url followed by guid (or link when
\* guid is absent, or the empty string); arguments with the same feed_url and
\* the same such part give the same key, and a different feed URL with the
\* identical guid gives a different key.
C14_KeyDeterminism ==
    Returned("_seen_key") =>
        /\ fn.res = Digest(fn.args.feed_url \o KeyBase(fn.args))
        /\ \A b \in KeyArgs :
            /\ (b.feed_url = fn.args.feed_url /\ KeyBase(b) = KeyBase(fn.args))
                   => _seen_key(b.feed_url, b.guid, b.link) = fn.res
            /\ (b.feed_url /= fn.args.feed_url /\ Truthy(b.guid)
                   /\ b.guid = fn.args.guid)
                   => _seen_key(b.feed_url, b.guid, b.link) /= fn.res

\* a key of a guid that another feed URL with the same guid must not give
C14_Witness ==
    /\ Returned("_seen_key")
    /\ fn.args.feed_url = FeedUrl(1) /\ fn.args.guid = <<"1", "x">>
    /\ fn.args.link = <<"x">>
    /\ fn.res = FeedUrl(1) \o <<"1", "x">>

\* C15: two pairs (feed_url, guid-or-link) that differ in either component
\* never have the same digested string, hence never the same key.
C15_KeyUniqueness ==
    Returned("_seen_key") =>
        \A b \in KeyArgs :
            (b.feed_url /= fn.args.feed_url \/ KeyBase(b) /= KeyBase(fn.args))
                => _seen_key(b.feed_url, b.guid, b.link) /= fn.res

\* the entry in hand has no HTML, its own or fetched, or its HTML converts
\* to zero blocks
NoContent ==
    \/ ~cur_html.present
    \/ html_to_blocks(cur_html.doc, CurItem.url, DEFAULT_MAX_BLOCKS) = Ret(<< >>)

\* the paragraph "Open on the web: " followed by the URL or by "No URL"
FallbackParagraph ==
    [type |-> "paragraph", url |-> None,
     rich |-> <<[content |-> <<"Open on the web: ">> \o
                             (IF Truthy(CurItem.url) THEN CurItem.url
                              ELSE <<"No URL">>),
                 ann |-> {}, link |-> None]>>]

\* C16: an entry without content (no feed HTML and no fetched HTML, or HTML
\* that converts to zero blocks) is written with exactly one child, the
\* paragraph "Open on the web: " + URL or "No URL"; create_page is never
\* called with an empty child list.
C16_EmptyContentFallback ==
    /\ pc \in {"create", "append", "mark"} => children /= << >>
    /\ \A k \in 1..Len(sent) : sent[k].op = "create" => sent[k].children /= << >>
    /\ (pc \in {"create", "mark"} /\ NoContent) =>
          /\ children = <<FallbackParagraph>>
          /\ pc = "mark" => sent = <<[op |-> "create", children |-> <<FallbackParagraph>>]>>

\* a page written for an entry with no HTML and no URL
C16_Witness ==
    /\ pc = "mark" /\ ~cur_html.present /\ ~Truthy(CurItem.url)
    /\ sent = <<[op |-> "create", children |-> <<FallbackParagraph>>]>>

\* a page written for an entry whose fetched HTML converts to zero blocks
C16_WitnessZeroBlocks ==
    /\ pc = "mark" /\ cur_html.present /\ NoContent /\ Truthy(CurItem.url)
    /\ sent = <<[op |-> "create", children |-> <<FallbackParagraph>>]>>

\* the keys a state file holds: those of a JSON array of strings
KeysOf(file) == IF file.kind = "strings" THEN Range(file.items) ELSE {}

\* C17: in a run seen starts as the keys of the state file and only grows,
\* by the key of each entry written; the flush after a feed, ended or
\* abandoned, leaves in the file exactly the keys of seen once an entry has
\* been written in the run (and leaves the file alone before that), so that
\* after every feed the file holds the keys loaded plus the keys of the
\* entries written so far; the file never loses a key.
C17_StateGrowsAndIsFlushed ==
    /\ []((pc \in {"feeds", "done"} /\ fi >= 1) => KeysOf(stateFile) = seen)
    /\ [][ /\ KeysOf(stateFile) \subseteq KeysOf(stateFile')
           /\ pc \notin {"done", "crashed"} => seen \subseteq seen'
           /\ (pc = "idle" /\ pc' = "feeds") => seen' = KeysOf(stateFile)
           /\ pc = "mark" => seen' = seen \cup {KeyAt(fi, ei)}
           /\ (pc \notin {"idle", "mark", "done", "crashed"}) => seen' = seen
           /\ pc = "flush" =>
                 /\ pc' \in {"feeds", "done"}
                 /\ state_dirty =>
                       /\ stateFile'.kind = "strings"
                       /\ Range(stateFile'.items) = seen
                       /\ Len(stateFile'.items) = Cardinality(seen)
                 /\ ~state_dirty => stateFile' = stateFile
           /\ pc /= "flush" => stateFile' = stateFile
         ]_vars

\* a feed was abandoned after an entry of it had been written, and the file
\* holds the key of that entry
C17_Witness ==
    /\ pc \in {"feeds", "done"} /\ state_dirty
    /\ aborts /= << >> /\ aborts[Len(aborts)].f = fi - 1
    /\ aborts[Len(aborts)].e = 2
    /\ stateFile.kind = "strings"
    /\ KeyAt(fi - 1, 1) \in Range(stateFile.items)
    /\ Range(stateFile.items) = seen

\* C18: every run of main started comes to its end; the feeds visited are at
\* every moment the first feeds of the list, each once and in order, and all
\* of them at the end; main does not stop on an exception of a feed; every
\* backoff_call, also one answered by rate-limit responses only, ends within
\* max_retries + 1 calls.
C18_Termination ==
    /\ [](/\ Len(visited) <= Len(feeds)
          /\ \A j \in 1..Len(visited) : visited[j] = j)
    /\ [](pc = "done" => Len(visited) = Len(feeds))
    /\ [](pc /= "crashed")
    /\ [](\A resps \in Answers(DEFAULT_MAX_RETRIES) :
            BackoffRun(resps, 1, 0, DEFAULT_MAX_RETRIES).calls
                <= DEFAULT_MAX_RETRIES + 1)
    /\ (pc = "idle" ~> pc = "done")

\* a run over several feeds has ended with the first remote call of every
\* feed raising
C18_Witness ==
    /\ pc = "done" /\ Len(feeds) >= 2
    /\ visited = [j \in 1..Len(feeds) |-> j]
    /\ Len(aborts) = Len(feeds)
    /\ \A j \in 1..Len(aborts) : aborts[j].at = "entries" /\ aborts[j].e = 1

\* an entry of the feed in hand is being processed
InEntry == HasEntry /\ pc \in {"entries", "lookup", "resolve", "create", "append", "mark"}

\* the entry carries neither an id, nor a guid, nor a link
NoIds(e) == ~Truthy(e.id) /\ ~Truthy(e.guid) /\ ~Truthy(e.link)

\* C19: for an entry with neither id/guid nor link the item has no guid, the
\* existence check makes no query (so it cannot raise), the entry is not
\* taken for a duplicate while no page carries its hash, and the page
\* created for it has the hash as its GUID.
C19_GuidFallback ==
    (InEntry /\ NoIds(CurEntry)) =>
        /\ ~Truthy(CurItem.guid)
        /\ exists_by_guid_or_url(CurItem.guid, CurItem.url, TRUE) = Ret(FALSE)
        /\ (\A j \in 1..Len(pages) : pages[j].guid /= CurItem.hash)
              => ~QueryMatches(CurItem.guid, CurItem.url)
        /\ pc \in {"append", "mark"} => pages[page_id].guid = CurItem.hash

\* C20: a page left without its later blocks by an append that raised is
\* completed or rewritten by a later run: at the end of a run in which
\* nothing raised, every page of the remote store holds all the blocks of
\* its entry.
C20_WriteCompletedLater ==
    (pc = "done" /\ aborts = << >>) =>
        \A j \in 1..Len(pages) : pages[j].complete

=============================================================================
